---------------------------- MODULE Spec2Model ----------------------------
(***************************************************************************)
(* Model of gretel_trainer.relational.sdk_extras.ExtendedGretelSDK, the    *)
(* adapter around the Gretel SDK's Job / Model / RecordHandler / Project   *)
(* objects.                                                                *)
(*                                                                         *)
(* The adapter's own state is the single field _hybrid.  Everything else   *)
(* is state of the objects the caller hands in: the refresh_attempts       *)
(* mapping, the job's status, the project's artifacts, the artifact        *)
(* handles a call opens.  Each method is one action; the two methods built *)
(* on `with` blocks are modelled step by step so that every exit path of   *)
(* the block is a path of the model.                                       *)
(*                                                                         *)
(* A Python call ends in one of three ways, recorded in `ret`:             *)
(*   [kind |-> "return", value |-> v]   return v                           *)
(*   [kind |-> "none"]                  return None (or fall off the end)  *)
(*   [kind |-> "raise", exc |-> e]      the exception e leaves the call    *)
(***************************************************************************)
EXTENDS Integers, Sequences, FiniteSets, TLC

VARIABLES
    hybrid,            \* ExtendedGretelSDK._hybrid
    job,               \* the Job object handed to get_job_id
    report,            \* the report handed to sqs_score_from_full_report
    refresh_attempts,  \* the caller's dict[str, int]
    status,            \* job.status of the job being refreshed
    streak,            \* history: consecutive failed refreshes per key
    refreshCalls,      \* history: job.refresh() invocations of the last call
    artifacts,         \* project.artifacts: the data-source keys among them
    otherArtifacts,    \* project.artifacts: how many further artifacts
    deleted,           \* history: keys passed to project.delete_artifact by the last call
    submitCalls,       \* history: job.submit() invocations of the last call
    logged,            \* last message handed to logger
    pc,                \* position inside download_file_artifact / get_record_handler_data
    open,              \* artifact / file handles currently open
    exc,               \* an exception is in flight inside the running call
    done,              \* history: steps of the running call that completed without failure
    last,              \* history: the last call, its arguments and the state it started from
    ret                \* outcome of the last call

vars == <<hybrid, job, report, refresh_attempts, status, streak, refreshCalls,
          artifacts, otherArtifacts, deleted, submitCalls, logged,
          pc, open, exc, done, last, ret>>

-----------------------------------------------------------------------------
(* Outcomes of a Python call *)

Return(v) == [kind |-> "return", value |-> v]

ReturnNone == [kind |-> "none"]

Raise(e) == [kind |-> "raise", exc |-> e]

NoCall == [kind |-> "nocall"]

NoLast == [op |-> "none"]

-----------------------------------------------------------------------------
(* get_job_id *)

JobKinds == {"Model", "RecordHandler", "Job"}

ModelIds == {"m1", "m2"}

RecordIds == {"r1", "r2"}

JobObjects == [kind : JobKinds, model_id : ModelIds, record_id : RecordIds]

\* get_job_id with the two identifiers exchanged
get_job_id_swapped(j) ==
    IF j.kind = "Model" THEN Return(j.record_id)
    ELSE IF j.kind = "RecordHandler" THEN Return(j.model_id)
    ELSE Raise("MultiTableException")

\* isinstance(job, Model) / isinstance(job, RecordHandler) / else raise
get_job_id(j) ==
    IF j.kind = "Model" THEN Return(j.model_id)
    ELSE IF j.kind = "RecordHandler" THEN Return(j.record_id)
    ELSE Raise("MultiTableException")

-----------------------------------------------------------------------------
(* sqs_score_from_full_report *)

MaxLen == 3

SQS == "synthetic_data_quality_score"

Fields == {SQS, "other_field"}

Values == {1, 2}

\* A summary entry: either not a mapping at all (None, a string, a list: any
\* subscript by "field" raises TypeError), or a dict that may or may not have
\* the keys "field" and "value".  Absent keys carry a fixed filler.
NotMapping == [isMapping |-> FALSE, keys |-> {}, field |-> "-", value |-> 0]

Mappings ==
    {[isMapping |-> TRUE, keys |-> {}, field |-> "-", value |-> 0]}
    \cup {[isMapping |-> TRUE, keys |-> {"field"}, field |-> f, value |-> 0] : f \in Fields}
    \cup {[isMapping |-> TRUE, keys |-> {"value"}, field |-> "-", value |-> v] : v \in Values}
    \cup {[isMapping |-> TRUE, keys |-> {"field", "value"}, field |-> f, value |-> v] :
             f \in Fields, v \in Values}

Entries == Mappings \cup {NotMapping}

SeqsUpTo(S, n) == UNION {[1..k -> S] : k \in 0..n}

\* report: a dict without "summary", a dict whose "summary" is None, or a dict
\* whose "summary" is a list of entries.
Reports ==
    {[summary |-> "missing", entries |-> <<>>], [summary |-> "none", entries |-> <<>>]}
    \cup {[summary |-> "seq", entries |-> s] : s \in SeqsUpTo(Entries, MaxLen)}

\* d[k] on an entry
Subscript(e, k) ==
    IF ~e.isMapping THEN Raise("TypeError")
    ELSE IF k \notin e.keys THEN Raise("KeyError")
    ELSE Return(IF k = "field" THEN e.field ELSE e.value)

\* the loop, were it to step over entries that have no "field" key
RECURSIVE ScanSummary_skipping(_, _)
ScanSummary_skipping(s, i) ==
    IF i > Len(s) THEN ReturnNone
    ELSE LET f == Subscript(s[i], "field") IN
         IF f.kind = "raise" /\ f.exc = "KeyError" THEN ScanSummary_skipping(s, i + 1)
         ELSE IF f.kind = "raise" THEN f
         ELSE IF f.value = SQS THEN Subscript(s[i], "value")
         ELSE ScanSummary_skipping(s, i + 1)

\* the for loop of lines 70-72, from position i on: the first exception ends it
RECURSIVE ScanSummary(_, _)
ScanSummary(s, i) ==
    IF i > Len(s) THEN ReturnNone
    ELSE LET f == Subscript(s[i], "field") IN
         IF f.kind = "raise" THEN f
         ELSE IF f.value = SQS THEN Subscript(s[i], "value")
         ELSE ScanSummary(s, i + 1)

\* report["summary"] followed by the loop
ReportBody(r) ==
    IF r.summary = "missing" THEN Raise("KeyError")
    ELSE IF r.summary = "none" THEN Raise("TypeError")
    ELSE ScanSummary(r.entries, 1)

\* contextlib.suppress(KeyError): a KeyError ends the block, the function
\* falls off its end and returns None; anything else passes through.
Suppress(o, e) == IF o.kind = "raise" /\ o.exc = e THEN ReturnNone ELSE o

sqs_score_from_full_report(r) == Suppress(ReportBody(r), "KeyError")

-----------------------------------------------------------------------------
(* Specification of the two pure methods: Init draws the arguments, the    *)
(* actions apply the methods to them.                                      *)

Idle ==
    /\ hybrid = FALSE
    /\ refresh_attempts = <<>>
    /\ status = "created"
    /\ streak = <<>>
    /\ refreshCalls = 0
    /\ artifacts = {}
    /\ otherArtifacts = 0
    /\ deleted = {}
    /\ submitCalls = 0
    /\ logged = "-"
    /\ pc = "idle"
    /\ open = {}
    /\ exc = FALSE
    /\ done = {}
    /\ last = NoLast
    /\ ret = NoCall

InitPure ==
    /\ Idle
    /\ job \in JobObjects
    /\ report \in Reports

GetJobId ==
    /\ ret' = get_job_id(job)
    /\ last' = [op |-> "get_job_id"]
    /\ UNCHANGED <<hybrid, job, report, refresh_attempts, status, streak, refreshCalls,
                   artifacts, otherArtifacts, deleted, submitCalls, logged,
                   pc, open, exc, done>>

SqsScoreFromFullReport ==
    /\ ret' = sqs_score_from_full_report(report)
    /\ last' = [op |-> "sqs_score_from_full_report"]
    /\ UNCHANGED <<hybrid, job, report, refresh_attempts, status, streak, refreshCalls,
                   artifacts, otherArtifacts, deleted, submitCalls, logged,
                   pc, open, exc, done>>

NextPure == GetJobId \/ SqsScoreFromFullReport

SpecPure == InitPure /\ [][NextPure]_vars

-----------------------------------------------------------------------------
(* cautiously_refresh_status *)

MaxAttempts == 3

Keys == {"k1", "k2"}

Statuses == {"created", "active", "completed"}

\* every dict[str, int] over Keys with counters up to MaxAttempts, keys absent included
AttemptMaps == UNION {[D -> 0..MaxAttempts] : D \in SUBSET Keys}

\* what the SDK's job.refresh() may do: fail, or succeed and leave any status
RefreshOutcomes == {[ok |-> FALSE, status |-> "-"]} \cup {[ok |-> TRUE, status |-> s] : s \in Statuses}

\* job.refresh(): on failure the job's status is what it was
JobRefresh(st, o) ==
    IF o.ok THEN [raised |-> FALSE, status |-> o.status]
    ELSE [raised |-> TRUE, status |-> st]

\* d[k] = v on a dict
Store(d, k, v) == (k :> v) @@ d

\* the method, were a success to reset every counter of the mapping
cautiously_refresh_status_clearing(ra, st, key, o) ==
    LET r == JobRefresh(st, o) IN
    IF ~r.raised
    THEN [attempts |-> [k \in DOMAIN ra \cup {key} |-> 0], status |-> r.status,
          ret |-> Return(r.status), refreshCalls |-> 1]
    ELSE IF key \in DOMAIN ra
    THEN [attempts |-> Store(ra, key, ra[key] + 1), status |-> r.status,
          ret |-> Return(r.status), refreshCalls |-> 1]
    ELSE [attempts |-> ra, status |-> r.status,
          ret |-> Raise("KeyError"), refreshCalls |-> 1]

\* the method, were a failure to set the counter to 1 instead of adding 1
cautiously_refresh_status_sticky(ra, st, key, o) ==
    LET r == JobRefresh(st, o) IN
    IF ~r.raised
    THEN [attempts |-> Store(ra, key, 0), status |-> r.status,
          ret |-> Return(r.status), refreshCalls |-> 1]
    ELSE IF key \in DOMAIN ra
    THEN [attempts |-> Store(ra, key, 1), status |-> r.status,
          ret |-> Return(r.status), refreshCalls |-> 1]
    ELSE [attempts |-> ra, status |-> r.status,
          ret |-> Raise("KeyError"), refreshCalls |-> 1]

\* The whole method.  try: one job.refresh(), then refresh_attempts[key] = 0.
\* except: refresh_attempts[key] = refresh_attempts[key] + 1, whose read of
\* refresh_attempts[key] raises KeyError out of the handler when key is absent.
\* Then return job.status.
cautiously_refresh_status(ra, st, key, o) ==
    LET r == JobRefresh(st, o) IN
    IF ~r.raised
    THEN [attempts |-> Store(ra, key, 0), status |-> r.status,
          ret |-> Return(r.status), refreshCalls |-> 1]
    ELSE IF key \in DOMAIN ra
    THEN [attempts |-> Store(ra, key, ra[key] + 1), status |-> r.status,
          ret |-> Return(r.status), refreshCalls |-> 1]
    ELSE [attempts |-> ra, status |-> r.status,
          ret |-> Raise("KeyError"), refreshCalls |-> 1]

CautiouslyRefreshStatus ==
    \E key \in Keys, o \in RefreshOutcomes :
        /\ ~o.ok => /\ streak[key] < MaxAttempts
                    /\ key \in DOMAIN refresh_attempts => refresh_attempts[key] < MaxAttempts
        /\ LET c == cautiously_refresh_status(refresh_attempts, status, key, o) IN
            /\ refresh_attempts' = c.attempts
            /\ status' = c.status
            /\ ret' = c.ret
            /\ refreshCalls' = c.refreshCalls
        /\ streak' = [streak EXCEPT ![key] = IF o.ok THEN 0 ELSE @ + 1]
        /\ last' = [op |-> "cautiously_refresh_status", key |-> key, ok |-> o.ok,
                    attempts |-> refresh_attempts, status |-> status]
        /\ UNCHANGED <<hybrid, job, report, artifacts, otherArtifacts, deleted,
                       submitCalls, logged, pc, open, exc, done>>

AnyJob == [kind |-> "Model", model_id |-> "m1", record_id |-> "r1"]

NoReport == [summary |-> "missing", entries |-> <<>>]

\* the caller hands in any mapping
InitRefresh ==
    /\ hybrid = FALSE
    /\ job = AnyJob
    /\ report = NoReport
    /\ refresh_attempts \in AttemptMaps
    /\ status \in Statuses
    /\ streak = [k \in Keys |-> 0]
    /\ refreshCalls = 0
    /\ artifacts = {}
    /\ otherArtifacts = 0
    /\ deleted = {}
    /\ submitCalls = 0
    /\ logged = "-"
    /\ pc = "idle"
    /\ open = {}
    /\ exc = FALSE
    /\ done = {}
    /\ last = NoLast
    /\ ret = NoCall

\* the caller hands in a mapping with every key at 0
InitTracked ==
    /\ InitRefresh
    /\ refresh_attempts = [k \in Keys |-> 0]

NextRefresh == CautiouslyRefreshStatus

SpecRefresh == InitRefresh /\ [][NextRefresh]_vars

SpecTracked == InitTracked /\ [][NextRefresh]_vars

-----------------------------------------------------------------------------
(* delete_data_sources, start_job_if_possible, _room_in_project *)

MAX_PROJECT_ARTIFACTS == 10000

Slack == 3

MaxRequest == 2

ArtifactKeys == {"gretel_a1", "gretel_a2"}

None == "None"

\* a job as these methods see it: job.data_source and job.ref_data.values
ProjectJobs == [data_source : ArtifactKeys \cup {None}, ref_data : SUBSET ArtifactKeys]

\* len(project.artifacts)
ArtifactCount(named, other) == Cardinality(named) + other

\* delete_data_sources without the test of _hybrid
delete_data_sources_unguarded(h, j) ==
    (IF j.data_source # None THEN {j.data_source} ELSE {}) \cup j.ref_data

\* the keys the method passes to project.delete_artifact
delete_data_sources(h, j) ==
    IF ~h
    THEN (IF j.data_source # None THEN {j.data_source} ELSE {}) \cup j.ref_data
    ELSE {}

\* _room_in_project with < for <=
_room_in_project_strict(h, len, count) ==
    IF h THEN TRUE ELSE len + count < MAX_PROJECT_ARTIFACTS

_room_in_project(h, len, count) ==
    IF h THEN TRUE ELSE len + count <= MAX_PROJECT_ARTIFACTS

\* whether the method takes the submit branch
start_job_if_possible(h, j, len, count) ==
    j.data_source = None \/ _room_in_project(h, len, count)

DeleteDataSources ==
    \E j \in ProjectJobs :
        /\ deleted' = delete_data_sources(hybrid, j)
        /\ artifacts' = artifacts \ deleted'
        /\ last' = [op |-> "delete_data_sources", job |-> j, artifacts |-> artifacts,
                    count |-> 0, len |-> ArtifactCount(artifacts, otherArtifacts)]
        /\ ret' = ReturnNone
        /\ submitCalls' = 0
        /\ logged' = "-"
        /\ UNCHANGED <<hybrid, job, report, refresh_attempts, status, streak,
                       refreshCalls, otherArtifacts, pc, open, exc, done>>

StartJobIfPossible ==
    \E j \in ProjectJobs, count \in 0..MaxRequest :
        LET len == ArtifactCount(artifacts, otherArtifacts)
            go == start_job_if_possible(hybrid, j, len, count) IN
        /\ submitCalls' = IF go THEN 1 ELSE 0
        /\ logged' = IF go THEN "Starting" ELSE "Deferring start"
        /\ last' = [op |-> "start_job_if_possible", job |-> j, artifacts |-> artifacts,
                    count |-> count, len |-> len]
        /\ ret' = ReturnNone
        /\ deleted' = {}
        /\ UNCHANGED <<hybrid, job, report, refresh_attempts, status, streak,
                       refreshCalls, artifacts, otherArtifacts, pc, open, exc, done>>

\* any adapter, any project filled to around the ceiling
InitProject ==
    /\ hybrid \in BOOLEAN
    /\ job = AnyJob
    /\ report = NoReport
    /\ refresh_attempts = <<>>
    /\ status = "created"
    /\ streak = <<>>
    /\ refreshCalls = 0
    /\ artifacts \in SUBSET ArtifactKeys
    /\ otherArtifacts \in (MAX_PROJECT_ARTIFACTS - Slack)..(MAX_PROJECT_ARTIFACTS + 1)
    /\ deleted = {}
    /\ submitCalls = 0
    /\ logged = "-"
    /\ pc = "idle"
    /\ open = {}
    /\ exc = FALSE
    /\ done = {}
    /\ last = NoLast
    /\ ret = NoCall

NextProject == DeleteDataSources \/ StartJobIfPossible

SpecProject == InitProject /\ [][NextProject]_vars

-----------------------------------------------------------------------------
(* download_file_artifact and get_record_handler_data, one step at a time. *)
(* Entering a context may fail; leaving it releases the handle and may     *)
(* fail too.  A `with` block leaves every context it entered, innermost    *)
(* first, whether or not an exception is in flight.                        *)

GretelObjects == {"Project", "Model"}

ArtifactNames == {"report_json", "data_preview"}

DownloadSteps == {"open_src", "open_dest", "copy", "close_dest", "close_src"}

DownloadFileArtifact ==
    \E obj \in GretelObjects, name \in ArtifactNames :
        /\ pc = "idle"
        /\ pc' = "enter_src"
        /\ last' = [op |-> "download_file_artifact", obj |-> obj, name |-> name]
        /\ ret' = NoCall
        /\ done' = {}
        /\ exc' = FALSE
        /\ logged' = "-"
        /\ UNCHANGED <<hybrid, job, report, refresh_attempts, status, streak, refreshCalls,
                       artifacts, otherArtifacts, deleted, submitCalls, open>>

\* gretel_object.get_artifact_handle(artifact_name).__enter__()
EnterSrc ==
    \E ok \in BOOLEAN :
        /\ pc = "enter_src"
        /\ open' = IF ok THEN open \cup {"src"} ELSE open
        /\ done' = IF ok THEN done \cup {"open_src"} ELSE done
        /\ exc' = ~ok
        /\ pc' = IF ok THEN "enter_dest" ELSE "except"
        /\ UNCHANGED <<hybrid, job, report, refresh_attempts, status, streak, refreshCalls,
                       artifacts, otherArtifacts, deleted, submitCalls, logged, last, ret>>

\* entering dest, were a failure to skip src.__exit__ (open / close by hand)
EnterDest_leaking ==
    \E ok \in BOOLEAN :
        /\ pc = "enter_dest"
        /\ open' = IF ok THEN open \cup {"dest"} ELSE open
        /\ done' = IF ok THEN done \cup {"open_dest"} ELSE done
        /\ exc' = ~ok
        /\ pc' = IF ok THEN "copy" ELSE "except"
        /\ UNCHANGED <<hybrid, job, report, refresh_attempts, status, streak, refreshCalls,
                       artifacts, otherArtifacts, deleted, submitCalls, logged, last, ret>>

\* open_artifact(out_path, "wb").__enter__(); on failure src is still left
EnterDest ==
    \E ok \in BOOLEAN :
        /\ pc = "enter_dest"
        /\ open' = IF ok THEN open \cup {"dest"} ELSE open
        /\ done' = IF ok THEN done \cup {"open_dest"} ELSE done
        /\ exc' = ~ok
        /\ pc' = IF ok THEN "copy" ELSE "exit_src"
        /\ UNCHANGED <<hybrid, job, report, refresh_attempts, status, streak, refreshCalls,
                       artifacts, otherArtifacts, deleted, submitCalls, logged, last, ret>>

\* the copy, were its failure dropped
Copy_unchecked ==
    \E ok \in BOOLEAN :
        /\ pc = "copy"
        /\ done' = IF ok THEN done \cup {"copy"} ELSE done
        /\ exc' = FALSE
        /\ pc' = "exit_dest"
        /\ UNCHANGED <<hybrid, job, report, refresh_attempts, status, streak, refreshCalls,
                       artifacts, otherArtifacts, deleted, submitCalls, logged, last, ret,
                       open>>

\* shutil.copyfileobj(src, dest)
Copy ==
    \E ok \in BOOLEAN :
        /\ pc = "copy"
        /\ done' = IF ok THEN done \cup {"copy"} ELSE done
        /\ exc' = ~ok
        /\ pc' = "exit_dest"
        /\ UNCHANGED <<hybrid, job, report, refresh_attempts, status, streak, refreshCalls,
                       artifacts, otherArtifacts, deleted, submitCalls, logged, last, ret,
                       open>>

\* dest.__exit__
ExitDest ==
    \E ok \in BOOLEAN :
        /\ pc = "exit_dest"
        /\ open' = open \ {"dest"}
        /\ done' = IF ok THEN done \cup {"close_dest"} ELSE done
        /\ exc' = (exc \/ ~ok)
        /\ pc' = "exit_src"
        /\ UNCHANGED <<hybrid, job, report, refresh_attempts, status, streak, refreshCalls,
                       artifacts, otherArtifacts, deleted, submitCalls, logged, last, ret>>

\* src.__exit__, then either `return True` is next or the except clause
ExitSrc ==
    \E ok \in BOOLEAN :
        /\ pc = "exit_src"
        /\ open' = open \ {"src"}
        /\ done' = IF ok THEN done \cup {"close_src"} ELSE done
        /\ exc' = (exc \/ ~ok)
        /\ pc' = IF exc' THEN "except" ELSE "return_true"
        /\ UNCHANGED <<hybrid, job, report, refresh_attempts, status, streak, refreshCalls,
                       artifacts, otherArtifacts, deleted, submitCalls, logged, last, ret>>

\* return True
ReturnTrue ==
    /\ pc = "return_true"
    /\ ret' = Return(TRUE)
    /\ pc' = "idle"
    /\ UNCHANGED <<hybrid, job, report, refresh_attempts, status, streak, refreshCalls,
                   artifacts, otherArtifacts, deleted, submitCalls, logged, last,
                   open, exc, done>>

\* except: logger.warning(...); return False
ExceptClause ==
    /\ pc = "except"
    /\ logged' = "Failed to download"
    /\ exc' = FALSE
    /\ ret' = Return(FALSE)
    /\ pc' = "idle"
    /\ UNCHANGED <<hybrid, job, report, refresh_attempts, status, streak, refreshCalls,
                   artifacts, otherArtifacts, deleted, submitCalls, last, open, done>>

GetRecordHandlerData ==
    \E rh \in RecordIds :
        /\ pc = "idle"
        /\ pc' = "enter_data"
        /\ last' = [op |-> "get_record_handler_data", obj |-> rh, name |-> "data"]
        /\ ret' = NoCall
        /\ done' = {}
        /\ exc' = FALSE
        /\ logged' = "-"
        /\ UNCHANGED <<hybrid, job, report, refresh_attempts, status, streak, refreshCalls,
                       artifacts, otherArtifacts, deleted, submitCalls, open>>

\* record_handler.get_artifact_handle("data").__enter__(); a failure leaves the call
EnterData ==
    \E ok \in BOOLEAN :
        /\ pc = "enter_data"
        /\ open' = IF ok THEN open \cup {"data"} ELSE open
        /\ done' = IF ok THEN done \cup {"open_data"} ELSE done
        /\ exc' = FALSE
        /\ ret' = IF ok THEN ret ELSE Raise("error")
        /\ pc' = IF ok THEN "read_csv" ELSE "idle"
        /\ UNCHANGED <<hybrid, job, report, refresh_attempts, status, streak, refreshCalls,
                       artifacts, otherArtifacts, deleted, submitCalls, logged, last>>

\* pd.read_csv(data)
ReadCsv ==
    \E ok \in BOOLEAN :
        /\ pc = "read_csv"
        /\ done' = IF ok THEN done \cup {"read_csv"} ELSE done
        /\ exc' = ~ok
        /\ pc' = "exit_data"
        /\ UNCHANGED <<hybrid, job, report, refresh_attempts, status, streak, refreshCalls,
                       artifacts, otherArtifacts, deleted, submitCalls, logged, last, ret,
                       open>>

\* data.__exit__, then the DataFrame is returned or the exception leaves the call
ExitData ==
    \E ok \in BOOLEAN :
        /\ pc = "exit_data"
        /\ open' = open \ {"data"}
        /\ done' = IF ok THEN done \cup {"close_data"} ELSE done
        /\ exc' = FALSE
        /\ ret' = IF exc \/ ~ok THEN Raise("error") ELSE Return("DataFrame")
        /\ pc' = "idle"
        /\ UNCHANGED <<hybrid, job, report, refresh_attempts, status, streak, refreshCalls,
                       artifacts, otherArtifacts, deleted, submitCalls, logged, last>>

InitIO ==
    /\ Idle
    /\ job = AnyJob
    /\ report = NoReport

NextIO ==
    \/ DownloadFileArtifact
    \/ EnterSrc
    \/ EnterDest
    \/ Copy
    \/ ExitDest
    \/ ExitSrc
    \/ ReturnTrue
    \/ ExceptClause
    \/ GetRecordHandlerData
    \/ EnterData
    \/ ReadCsv
    \/ ExitData

SpecIO == InitIO /\ [][NextIO]_vars

-----------------------------------------------------------------------------
(* Properties of cautiously_refresh_status *)

RefreshDone == last.op = "cautiously_refresh_status"

C7_FailureSwallowed ==
    (RefreshDone /\ ~last.ok) =>
        /\ ret = Return(status)
        /\ status = last.status

\* C10: starting from a mapping with every key at 0, in every reachable state
\* each refresh_attempts[k] is the number of consecutive failed refreshes for
\* k since its last successful one (hence never negative); each call invoked
\* job.refresh() exactly once and left the entries of all other keys as they
\* were.
C10_CountsFailureStreak ==
    /\ DOMAIN refresh_attempts = Keys
    /\ \A k \in Keys : refresh_attempts[k] = streak[k] /\ refresh_attempts[k] >= 0
    /\ RefreshDone =>
          /\ refreshCalls = 1
          /\ \A k \in Keys \ {last.key} : refresh_attempts[k] = last.attempts[k]

\* k1 has failed twice in a row, and the last call was a success for k2
\* that reset k2's counter from a nonzero value
C10_Witness ==
    /\ RefreshDone
    /\ last.key = "k2"
    /\ last.ok
    /\ last.attempts["k2"] > 0
    /\ refresh_attempts["k1"] = 2
    /\ refresh_attempts["k2"] = 0

-----------------------------------------------------------------------------
(* Properties of start_job_if_possible and delete_data_sources *)

StartDone == last.op = "start_job_if_possible"

DeleteDone == last.op = "delete_data_sources"

\* C2: start_job_if_possible calls job.submit() if and only if
\* job.data_source is None, or the adapter is hybrid, or
\* len(project.artifacts) + number_of_artifacts <= 10000; otherwise
\* job.submit() is not called and only the deferral message is logged.
C2_SubmitIffAdmitted ==
    StartDone =>
        LET admitted == \/ last.job.data_source = None
                        \/ hybrid
                        \/ last.len + last.count <= 10000 IN
        /\ admitted => submitCalls = 1 /\ logged = "Starting"
        /\ ~admitted => submitCalls = 0 /\ logged = "Deferring start"

\* a job with a data source, not hybrid, exactly at the ceiling, submitted
C2_Witness ==
    /\ StartDone
    /\ ~hybrid
    /\ last.job.data_source # None
    /\ last.len + last.count = 10000
    /\ last.count > 0
    /\ submitCalls = 1

\* C5: in hybrid mode delete_data_sources passes nothing to
\* project.delete_artifact, whatever job.data_source and job.ref_data hold,
\* and the project's artifacts are what they were before the call.
C5_HybridDeletesNothing ==
    (DeleteDone /\ hybrid) =>
        /\ deleted = {}
        /\ artifacts = last.artifacts

\* hybrid, and the job's data source and reference data are artifacts of the project
C5_Witness ==
    /\ DeleteDone
    /\ hybrid
    /\ last.job.data_source \in artifacts
    /\ last.job.ref_data # {}
    /\ last.job.ref_data \subseteq artifacts

-----------------------------------------------------------------------------
(* Properties of get_job_id and sqs_score_from_full_report *)

\* C6: get_job_id returns job.model_id for a Model, job.record_id for a
\* RecordHandler, and raises MultiTableException, returning nothing, for
\* every other job.
C6_JobIdByVariant ==
    last.op = "get_job_id" =>
        /\ job.kind = "Model" => ret = Return(job.model_id)
        /\ job.kind = "RecordHandler" => ret = Return(job.record_id)
        /\ job.kind \notin {"Model", "RecordHandler"} => ret = Raise("MultiTableException")

\* a job that is neither variant raised
C6_Witness ==
    /\ last.op = "get_job_id"
    /\ job.kind = "Job"
    /\ ret.kind = "raise"

SqsDone == last.op = "sqs_score_from_full_report"

IsMatch(e) == e.isMapping /\ "field" \in e.keys /\ e.field = SQS

HasMatch(s) == \E i \in 1..Len(s) : IsMatch(s[i])

\* position of the first entry whose "field" is the score's name
FirstMatch(s) == CHOOSE i \in 1..Len(s) : IsMatch(s[i]) /\ \A j \in 1..(i - 1) : ~IsMatch(s[j])

AllMappings(s) == \A i \in 1..Len(s) : s[i].isMapping

\* every entry before position i is a dict with a "field" key
FieldsBefore(s, i) == \A j \in 1..(i - 1) : s[j].isMapping /\ "field" \in s[j].keys

\* C3 as stated: for a summary that is a sequence of (dict) entries, the
\* result is the "value" of the first entry whose "field" is
\* "synthetic_data_quality_score", whatever precedes it (entries without a
\* "field" key included), and the result is nothing only when no entry has
\* that field.
C3_FirstMatchWhateverPrecedes ==
    (SqsDone /\ report.summary = "seq" /\ AllMappings(report.entries)) =>
        LET s == report.entries IN
        /\ (HasMatch(s) /\ "value" \in s[FirstMatch(s)].keys) =>
               ret = Return(s[FirstMatch(s)].value)
        /\ ret.kind = "none" => ~HasMatch(s)

\* C3 amended: the result is the "value" of the first entry whose "field" is
\* "synthetic_data_quality_score" provided every entry before it is a dict
\* with a "field" key and the entry has a "value" key; among summaries of
\* dicts the result is nothing exactly when no entry has that field, or an
\* entry without "field" comes before the first that has it, or that first
\* one has no "value".
C3_FirstMatchAfterWellFormed ==
    (SqsDone /\ report.summary = "seq") =>
        LET s == report.entries IN
        /\ (/\ HasMatch(s)
            /\ FieldsBefore(s, FirstMatch(s))
            /\ "value" \in s[FirstMatch(s)].keys) =>
               ret = Return(s[FirstMatch(s)].value)
        /\ AllMappings(s) =>
               (ret.kind = "none" <=>
                   \/ ~HasMatch(s)
                   \/ ~FieldsBefore(s, FirstMatch(s))
                   \/ "value" \notin s[FirstMatch(s)].keys)

\* two entries carry the score's field with different values, after an entry
\* for another field; the first one's value came back
C3_Witness ==
    /\ SqsDone
    /\ report.summary = "seq"
    /\ Len(report.entries) = 3
    /\ report.entries[1].keys = {"field", "value"}
    /\ report.entries[1].field # SQS
    /\ IsMatch(report.entries[2])
    /\ IsMatch(report.entries[3])
    /\ report.entries[2].keys = {"field", "value"}
    /\ report.entries[3].keys = {"field", "value"}
    /\ report.entries[2].value # report.entries[3].value
    /\ ret = Return(report.entries[2].value)

\* C4: sqs_score_from_full_report lets no error out: for every malformed
\* report (no "summary", a "summary" of None, an entry that is no mapping, an
\* entry without "field", a matching entry without "value") it returns
\* nothing.
C4_NeverRaises ==
    SqsDone => ret.kind # "raise"

-----------------------------------------------------------------------------
(* Properties of download_file_artifact and get_record_handler_data *)

DownloadReturned == pc = "idle" /\ last.op = "download_file_artifact"

\* C8: download_file_artifact lets no error out: it returns True exactly
\* when both handles were opened, the copy ran and both handles were closed
\* without a failure, and returns False, having logged the warning, when
\* any of those steps failed.
C8_TrueIffEveryStepSucceeded ==
    DownloadReturned =>
        /\ ret.kind = "return"
        /\ ret.value \in BOOLEAN
        /\ ret.value <=> done = DownloadSteps
        /\ ~ret.value => logged = "Failed to download"

\* the copy failed after both handles were opened, and False came back
C8_Witness ==
    /\ DownloadReturned
    /\ {"open_src", "open_dest"} \subseteq done
    /\ "copy" \notin done
    /\ ret = Return(FALSE)

\* C9: whenever download_file_artifact or get_record_handler_data has ended,
\* by return or by raise, no handle it opened is still open.
C9_HandlesReleased ==
    pc = "idle" => open = {}

\* download_file_artifact ended after the source was opened and opening the
\* destination failed
C9_Witness ==
    /\ DownloadReturned
    /\ "open_src" \in done
    /\ "open_dest" \notin done
    /\ ret = Return(FALSE)
    /\ open = {}

=============================================================================
